---- MODULE Spec2Model ----
(***************************************************************************)
(* StagePi stream management: the supervisor-backed reconciliation engine  *)
(* of backend/core/stream_manager.py and the JSON-file registry of         *)
(* backend/api/streams_routes.py.                                          *)
(*                                                                         *)
(* Python dicts are functions whose DOMAIN is the set of keys present.     *)
(* A stream id is a number of StreamIds; NoId stands for a missing, None   *)
(* or empty id (everything Python's `not s.get("id")` accepts).  Integer   *)
(* fields of a dict are carried as their decimal token ("5004"); int()     *)
(* and str() are the operators py_int and py_str.                          *)
(***************************************************************************)
EXTENDS Integers, Sequences, FiniteSets, TLC

\* ------------------------------------------------------------- bounds
\* the stream ids of the model, and the largest of them
StreamIds == {1, 2}
LastId == CHOOSE i \in StreamIds : \A j \in StreamIds : j <= i
NoId == 0
\* handlers that meet an environment fault (a failing sudo file command, an
\* unreachable supervisor) in one behaviour
MaxFaults == 1
\* entries the JSON registry document holds at most
MaxDoc == 3
\* kinds of line in the tail of a stderr log
MaxSigs == 3
\* pieces of an ALSA device name
MaxDev == 2

\* ------------------------------------------------------------- dict helpers
Get(d, k, dflt) == IF k \in DOMAIN d THEN d[k] ELSE dflt
Put(d, k, v) == [x \in DOMAIN d \cup {k} |-> IF x = k THEN v ELSE d[x]]
Del(d, k) == [x \in DOMAIN d \ {k} |-> d[x]]
Merge(a, b) == [k \in DOMAIN a \cup DOMAIN b |-> IF k \in DOMAIN b THEN b[k] ELSE a[k]]
EmptyDict == [x \in {} |-> TRUE]

\* ------------------------------------------------------------- conversions
DefaultPort == 5004
AltPort == 5006
PortTokens == {"5004", "5006", "abc"}

\* int(x): defined on the decimal tokens, ValueError on anything else
py_int_ok(tok) == tok \in {"5004", "5006"}
py_int(tok) == IF tok = "5004" THEN DefaultPort ELSE AltPort
\* f"{value}" of an int
py_str(n) == ToString(n)
\* "true"/"false" of a bool, as _build_supervisor_env_string and autostart write it
bool_str(b) == IF b THEN "true" ELSE "false"

\* ------------------------------------------------------------- exceptions
NoExc == [type |-> "none", msg |-> ""]
Exc(t, m) == [type |-> t, msg |-> m]
Raised(x) == x.type # "none"

\* ------------------------------------------------------------- StreamConfig
\* _dict_to_stream_config: None (ok = FALSE) when a field cannot be converted
dict_to_stream_config(d) ==
  IF py_int_ok(Get(d, "port", "5004"))
  THEN [ok |-> TRUE,
        cfg |-> [stream_id |-> Get(d, "id", NoId),
                 kind |-> Get(d, "kind", "receiver"),
                 port |-> py_int(Get(d, "port", "5004")),
                 device |-> Get(d, "device", "default")]]
  ELSE [ok |-> FALSE,
        cfg |-> [stream_id |-> NoId, kind |-> "", port |-> 0, device |-> ""]]

\* ------------------------------------------------------------- pipeline description
\* An ALSA device name is a sequence of pieces: the word "default", a colon,
\* a namespace word ("hw", "plughw"), a card identifier.
DeviceTokens == {"default", ":", "hw", "card"}

Range(s) == {s[k] : k \in DOMAIN s}

\* (mutant of get_alsa_device_string: every name but 'default' is prefixed)
get_alsa_device_string_all(device_name) ==
  IF device_name = <<"default">> THEN device_name
  ELSE <<"hw", ":">> \o device_name

\* AES67Stream._get_alsa_device_string
get_alsa_device_string(device_name) ==
  IF device_name = <<"default">> THEN device_name
  ELSE IF ":" \in Range(device_name) THEN device_name
  ELSE <<"hw", ":">> \o device_name

\* (mutant of build_pipeline_string: the description carries the stream id
\* and the loopback flag)
build_pipeline_string_named(c) ==
  LET device_str == get_alsa_device_string(c.device)
  IN  IF c.kind = "sender"
      THEN [ok |-> TRUE,
            str |-> <<"alsasrc", device_str, c.buffer_time, c.latency_time, c.format,
                      c.channels, c.ip, c.port, c.iface, bool_str(c.sync),
                      c.stream_id, bool_str(c.loopback)>>]
      ELSE IF c.kind = "receiver"
      THEN [ok |-> TRUE,
            str |-> <<"udpsrc", c.ip, c.port, c.iface, c.channels, device_str,
                      c.stream_id, bool_str(c.loopback)>>]
      ELSE [ok |-> FALSE, str |-> <<>>]

\* AES67Stream._build_pipeline_string: the values interpolated into the
\* gst-launch-1.0 description, in the order of the f-strings, after the name
\* of the first element (ok = FALSE: ValueError("Unknown stream kind"))
build_pipeline_string(c) ==
  LET device_str == get_alsa_device_string(c.device)
  IN  IF c.kind = "sender"
      THEN [ok |-> TRUE,
            str |-> <<"alsasrc", device_str, c.buffer_time, c.latency_time, c.format,
                      c.channels, c.ip, c.port, c.iface, bool_str(c.sync)>>]
      ELSE IF c.kind = "receiver"
      THEN [ok |-> TRUE,
            str |-> <<"udpsrc", c.ip, c.port, c.iface, c.channels, device_str>>]
      ELSE [ok |-> FALSE, str |-> <<>>]

\* AES67Stream.__init__ -> _build_pipeline_string raises ValueError for any
\* kind other than sender / receiver
AES67Stream_ok(cfg) == cfg.kind \in {"sender", "receiver"}

\* ------------------------------------------------------------- environment
\* What the world outside the program does during one handler: whether the
\* sudo mkdir/mv/rm calls succeed (fs), whether supervisorctl reaches the
\* supervisor (up), and for every unit what `supervisorctl update` makes of
\* it when it is (re)loaded with autostart=true (state) and what the unit's
\* stderr log then holds (tail: the set of signatures of _get_process_error
\* that occur in it).
UnitOutcomes ==
  { [state |-> "RUNNING", tail |-> {}],
    [state |-> "ABSENT", tail |-> {}],
    [state |-> "STARTING", tail |-> {}],
    [state |-> "FATAL", tail |-> {"busy"}] }
Quiet == [i \in StreamIds |-> [state |-> "RUNNING", tail |-> {}]]
FsDown == [fs |-> FALSE, up |-> TRUE, out |-> Quiet]
SupDown == [fs |-> TRUE, up |-> FALSE, out |-> Quiet]
AllFine == [fs |-> TRUE, up |-> TRUE, out |-> Quiet]
Faulty(e) == ~e.fs \/ ~e.up

\* environments of a handler that may start every unit, one unit, no unit
Envs ==
  { [fs |-> TRUE, up |-> TRUE, out |-> o] :
      o \in [StreamIds -> {u \in UnitOutcomes : u.state # "STARTING"}] }
Envs1 == { [fs |-> TRUE, up |-> TRUE, out |-> [i \in StreamIds |-> o]] : o \in UnitOutcomes }
Envs0 == {AllFine}
\* the same with the environment faults
Faults == {FsDown, SupDown}

\* ------------------------------------------------------------- the world
\* A world is the state a handler works on:
\*   conf     the unit definitions in SUPERVISOR_CONF_DIR, by stream id
\*   streams  SupervisorStreamManager.streams: id -> StreamConfig of the
\*            AES67Stream object held for it
\*   sup      the supervisor's view of each unit: ABSENT (not loaded),
\*            STOPPED, STARTING, RUNNING, FATAL
\*   log      the external commands and protocol steps of the handler, in order
Log(w, c, id, r) == [w EXCEPT !.log = Append(@, [c |-> c, id |-> id, r |-> r])]

\* (mutant of UnitFile: the port written is always the default one)
UnitFile_stale(cfg, enabled) ==
  [stream_id |-> cfg.stream_id,
   kind |-> cfg.kind,
   port |-> py_str(DefaultPort),
   device |-> cfg.device,
   autostart |-> bool_str(enabled)]

\* The unit definition _create_supervisor_config writes: the STAGEPI_*
\* environment block (strings) and the autostart line
UnitFile(cfg, enabled) ==
  [stream_id |-> cfg.stream_id,
   kind |-> cfg.kind,
   port |-> py_str(cfg.port),
   device |-> cfg.device,
   autostart |-> bool_str(enabled)]

\* _create_supervisor_config: sudo mkdir / sudo mv with check=True
create_supervisor_config(w, cfg, enabled, e) ==
  IF e.fs
  THEN [w |-> Log([w EXCEPT !.conf = Put(@, cfg.stream_id, UnitFile(cfg, enabled))],
                  "write", cfg.stream_id, bool_str(enabled)),
        exc |-> NoExc]
  ELSE [w |-> Log(w, "write_failed", cfg.stream_id, bool_str(enabled)),
        exc |-> Exc("CalledProcessError", "Command sudo mv returned non-zero exit status 1")]

\* supervisorctl stop <unit>   (check=False: never raises)
supervisorctl_stop(w, id, e) ==
  Log(IF e.up /\ w.sup[id] # "ABSENT" THEN [w EXCEPT !.sup[id] = "STOPPED"] ELSE w,
      "stop", id, "")

\* supervisorctl remove <unit>
supervisorctl_remove(w, id, e) ==
  Log(IF e.up THEN [w EXCEPT !.sup[id] = "ABSENT"] ELSE w, "remove", id, "")

\* supervisorctl update: the supervisor rereads the conf dir.  The unit just
\* written is (re)loaded: started if autostart=true, with the outcome the
\* environment gives, else loaded STOPPED.  Units whose file is gone are
\* removed; unloaded units with autostart=false are loaded STOPPED.
supervisorctl_update(w, id, e) ==
  Log(IF e.up
      THEN [w EXCEPT !.sup =
             [i \in StreamIds |->
                IF i \notin DOMAIN w.conf THEN "ABSENT"
                ELSE IF i = id
                     THEN IF w.conf[i].autostart = "true" THEN e.out[i].state ELSE "STOPPED"
                ELSE IF w.sup[i] = "ABSENT" /\ w.conf[i].autostart = "false" THEN "STOPPED"
                ELSE w.sup[i]]]
      ELSE w,
      "update", id, "")

\* _get_supervisor_status: "" is None (no such process / no output); ERROR
\* when supervisorctl itself fails; else the state name of the unit
get_supervisor_status(w, id, e) ==
  IF ~e.up THEN "ERROR"
  ELSE IF w.sup[id] = "ABSENT" THEN ""
  ELSE w.sup[id]

\* What the last 20 lines of a unit's stderr log can hold, lowercased:
\*   busy       "device is being used by another application"
\*   open       "could not open audio device"
\*   nodev      "no such device"        nofile  "no such file"
\*   negotiate  "not-negotiated"
\*   error      "error"                 warning "warning"
\*   plain      text with none of these
\* A tail is the set of those that occur in it ({}: no file, or an empty one).
Signatures ==
  {"busy", "open", "nodev", "nofile", "negotiate", "error", "warning", "plain"}

\* (mutant of get_process_error: the elif chain in the opposite order)
get_process_error_rev(cfg, tail) ==
  IF "negotiate" \in tail THEN "Audio format negotiation failed on device"
  ELSE IF "nodev" \in tail \/ "nofile" \in tail THEN "Audio device not found"
  ELSE IF "open" \in tail THEN "Could not open audio device"
  ELSE IF "busy" \in tail THEN "Audio device is currently in use by another application"
  ELSE IF "error" \in tail \/ "warning" \in tail THEN "raw tail"
  ELSE ""

\* _get_process_error: the first matching signature in the tail of the
\* stderr log, in the order of the elif chain; "raw tail" is
\* error_text.strip()[-500:], "" is None
get_process_error(cfg, tail) ==
  IF "busy" \in tail THEN "Audio device is currently in use by another application"
  ELSE IF "open" \in tail THEN "Could not open audio device"
  ELSE IF "nodev" \in tail \/ "nofile" \in tail THEN "Audio device not found"
  ELSE IF "negotiate" \in tail THEN "Audio format negotiation failed on device"
  ELSE IF "error" \in tail \/ "warning" \in tail THEN "raw tail"
  ELSE ""

\* (mutant of AES67Stream_stop: a unit the supervisor does not hold is taken
\* for a deleted stream and its definition is removed)
AES67Stream_stop_once(w, cfg, e) ==
  LET w1 == supervisorctl_stop(w, cfg.stream_id, e)
      w2 == supervisorctl_remove(w1, cfg.stream_id, e)
  IN  IF w.sup[cfg.stream_id] = "ABSENT"
      THEN Log([w2 EXCEPT !.conf = Del(@, cfg.stream_id)], "rm", cfg.stream_id, "")
      ELSE create_supervisor_config(w2, cfg, FALSE, e).w

\* (mutant of AES67Stream_stop: the unit definition is deleted, not rewritten)
AES67Stream_stop_rm(w, cfg, e) ==
  LET w1 == supervisorctl_stop(w, cfg.stream_id, e)
      w2 == supervisorctl_remove(w1, cfg.stream_id, e)
  IN  Log([w2 EXCEPT !.conf = Del(@, cfg.stream_id)], "rm", cfg.stream_id, "")

\* AES67Stream.stop: stop, remove, rewrite the definition with
\* autostart=false; every exception is caught and logged
AES67Stream_stop(w, cfg, e) ==
  LET w1 == supervisorctl_stop(w, cfg.stream_id, e)
      w2 == supervisorctl_remove(w1, cfg.stream_id, e)
  IN  create_supervisor_config(w2, cfg, FALSE, e).w

\* (mutant of AES67Stream_start: a failure is raised without stop-and-cleanup)
AES67Stream_start_nostop(w, cfg, enabled, e) ==
  LET id == cfg.stream_id
      r1 == create_supervisor_config(Log(w, "start", id, ""), cfg, enabled, e)
  IN  IF Raised(r1.exc)
      THEN [w |-> Log(r1.w, "start_failed", id, r1.exc.msg), exc |-> r1.exc]
      ELSE
        LET w2 == supervisorctl_update(r1.w, id, e)
            status == get_supervisor_status(w2, id, e)
            w3 == Log(w2, "status", id, status)
        IN  IF status # "" /\ status # "RUNNING"
            THEN [w |-> Log(w3, "start_failed", id, "Stream failed to start: " \o status),
                  exc |-> Exc("RuntimeError", "Stream failed to start: " \o status)]
            ELSE [w |-> Log(w3, "started", id, ""), exc |-> NoExc]

\* (mutant of AES67Stream_start: the status is queried before the update)
AES67Stream_start_early(w, cfg, enabled, e) ==
  LET id == cfg.stream_id
      r1 == create_supervisor_config(Log(w, "start", id, ""), cfg, enabled, e)
  IN  IF Raised(r1.exc)
      THEN [w |-> Log(AES67Stream_stop(r1.w, cfg, e), "start_failed", id, r1.exc.msg),
            exc |-> r1.exc]
      ELSE
        LET w2 == supervisorctl_update(r1.w, id, e)
            status == get_supervisor_status(w2, id, e)
            w3 == supervisorctl_update(Log(r1.w, "status", id, status), id, e)
        IN  IF status # "" /\ status # "RUNNING"
            THEN LET x == Exc("RuntimeError", "Stream failed to start: " \o status)
                 IN  [w |-> Log(AES67Stream_stop(w3, cfg, e), "start_failed", id, x.msg),
                      exc |-> x]
            ELSE [w |-> Log(w3, "started", id, ""), exc |-> NoExc]

\* AES67Stream.start
AES67Stream_start(w, cfg, enabled, e) ==
  LET id == cfg.stream_id
      r1 == create_supervisor_config(Log(w, "start", id, ""), cfg, enabled, e)
  IN  IF Raised(r1.exc)
      THEN [w |-> Log(AES67Stream_stop(r1.w, cfg, e), "start_failed", id, r1.exc.msg),
            exc |-> r1.exc]
      ELSE
        LET w2 == supervisorctl_update(r1.w, id, e)
            status == get_supervisor_status(w2, id, e)
            w3 == Log(w2, "status", id, status)
        IN  IF status # "" /\ status # "RUNNING"
            THEN LET error_msg == get_process_error(cfg, e.out[id].tail)
                     x == IF error_msg # ""
                          THEN Exc("RuntimeError", error_msg)
                          ELSE Exc("RuntimeError", "Stream failed to start: " \o status)
                 IN  [w |-> Log(AES67Stream_stop(w3, cfg, e), "start_failed", id, x.msg),
                      exc |-> x]
            ELSE [w |-> Log(w3, "started", id, ""), exc |-> NoExc]

\* SupervisorStreamManager.stop_stream
stop_stream(w, id, e) ==
  IF id \in DOMAIN w.streams
  THEN [AES67Stream_stop(w, w.streams[id], e) EXCEPT !.streams = Del(@, id)]
  ELSE w

\* AES67Stream.get_state: the "state" of the dict returned.  STOPPED when
\* _get_supervisor_status finds no unit, else status["state"] as it is
get_state(w, id, e) ==
  LET status == get_supervisor_status(w, id, e)
  IN  IF status = "" THEN "STOPPED" ELSE status

\* SupervisorStreamManager.get_stream_status ("None": the id is not in the map)
get_stream_status(w, id, e) ==
  IF id \in DOMAIN w.streams THEN get_state(w, id, e) ELSE "None"

\* ------------------------------------------------------------- registry reads
\* _read_supervisor_config: the dict read back from a unit definition
\* (None, ok = FALSE, when there is no file or the port does not parse)
read_supervisor_config(w, id) ==
  IF id \in DOMAIN w.conf /\ py_int_ok(w.conf[id].port)
  THEN [ok |-> TRUE,
        d |-> [id |-> w.conf[id].stream_id,
               kind |-> w.conf[id].kind,
               port |-> py_str(py_int(w.conf[id].port)),
               device |-> w.conf[id].device,
               enabled |-> (w.conf[id].autostart = "true")]]
  ELSE [ok |-> FALSE, d |-> EmptyDict]

\* read_streams / get_all_streams: one dict per readable unit definition
\* (the directory is listed in ascending id order here)
RECURSIVE read_from(_, _)
read_from(w, i) ==
  IF i > LastId THEN <<>>
  ELSE LET r == read_supervisor_config(w, i)
       IN  (IF r.ok THEN <<r.d>> ELSE <<>>) \o read_from(w, i + 1)
get_all_streams(w) == read_from(w, 1)

get_stream_by_id(w, id) == read_supervisor_config(w, id)

IdsOf(ds) == {Get(ds[i], "id", NoId) : i \in DOMAIN ds}

\* ------------------------------------------------------------- syncOne
\* (mutant of sync_stream_to_gstreamer: an enabled stream is started without
\* stopping the stream process the map holds for its id)
sync_stream_to_gstreamer_nostop(w, d, e) ==
  LET stream_id == Get(d, "id", NoId)
      enabled == Get(d, "enabled", TRUE)
      c == dict_to_stream_config(d)
      w1 == stop_stream(w, stream_id, e)
  IN  IF ~c.ok
      THEN [w |-> w, exc |-> Exc("ValueError", "Invalid stream configuration")]
      ELSE IF enabled
      THEN IF ~AES67Stream_ok(c.cfg)
           THEN [w |-> w,
                 exc |-> Exc("RuntimeError", "Failed to start stream: Unknown stream kind")]
           ELSE LET r == AES67Stream_start([w EXCEPT !.streams = Put(@, stream_id, c.cfg)],
                                           c.cfg, TRUE, e)
                IN  IF Raised(r.exc)
                    THEN [w |-> r.w,
                          exc |-> Exc("RuntimeError", "Failed to start stream: " \o r.exc.msg)]
                    ELSE r
      ELSE IF ~AES67Stream_ok(c.cfg)
           THEN [w |-> w1, exc |-> NoExc]
           ELSE LET r == create_supervisor_config(w1, c.cfg, FALSE, e)
                IN  IF Raised(r.exc)
                    THEN [w |-> r.w, exc |-> NoExc]
                    ELSE [w |-> supervisorctl_update(r.w, stream_id, e), exc |-> NoExc]

\* _sync_stream_to_gstreamer
sync_stream_to_gstreamer(w, d, e) ==
  LET stream_id == Get(d, "id", NoId)
      enabled == Get(d, "enabled", TRUE)
      c == dict_to_stream_config(d)
      w1 == stop_stream(w, stream_id, e)
  IN  IF ~c.ok
      THEN [w |-> w, exc |-> Exc("ValueError", "Invalid stream configuration")]
      ELSE IF enabled
      THEN IF ~AES67Stream_ok(c.cfg)
           THEN [w |-> w1,
                 exc |-> Exc("RuntimeError", "Failed to start stream: Unknown stream kind")]
           ELSE LET r == AES67Stream_start([w1 EXCEPT !.streams = Put(@, stream_id, c.cfg)],
                                           c.cfg, TRUE, e)
                IN  IF Raised(r.exc)
                    THEN [w |-> r.w,
                          exc |-> Exc("RuntimeError", "Failed to start stream: " \o r.exc.msg)]
                    ELSE r
      ELSE IF ~AES67Stream_ok(c.cfg)
           THEN [w |-> w1, exc |-> NoExc]
           ELSE LET r == create_supervisor_config(w1, c.cfg, FALSE, e)
                IN  IF Raised(r.exc)
                    THEN [w |-> r.w, exc |-> NoExc]
                    ELSE [w |-> supervisorctl_update(r.w, stream_id, e), exc |-> NoExc]

\* ------------------------------------------------------------- reconcileAll
\* the loop `for stream_id in running_ids - config_ids`
RECURSIVE stop_removed(_, _, _, _)
stop_removed(w, ids, i, e) ==
  IF i > LastId THEN w
  ELSE stop_removed(IF i \in ids THEN stop_stream(w, i, e) ELSE w, ids, i + 1, e)

\* (mutant of sync_each: the first raise ends the loop)
RECURSIVE sync_each_abort(_, _, _, _)
sync_each_abort(w, ds, e, failed) ==
  IF ds = <<>> THEN [w |-> w, failed |-> failed]
  ELSE LET r == sync_stream_to_gstreamer(w, Head(ds), e)
       IN  IF Raised(r.exc)
           THEN [w |-> r.w,
                 failed |-> Append(failed, [id |-> Get(Head(ds), "id", NoId),
                                            error |-> r.exc.msg])]
           ELSE sync_each_abort(r.w, Tail(ds), e, failed)

\* the loop `for stream_data in streams`: every entry is synced, a raise is
\* recorded in failed_streams under the entry's id
RECURSIVE sync_each(_, _, _, _)
sync_each(w, ds, e, failed) ==
  IF ds = <<>> THEN [w |-> w, failed |-> failed]
  ELSE LET r == sync_stream_to_gstreamer(w, Head(ds), e)
       IN  sync_each(r.w, Tail(ds), e,
                     IF Raised(r.exc)
                     THEN Append(failed, [id |-> Get(Head(ds), "id", NoId),
                                          error |-> r.exc.msg])
                     ELSE failed)

\* _sync_all_streams_to_gstreamer
sync_all_streams_to_gstreamer(w, e) ==
  LET streams_ == get_all_streams(w)
      w1 == stop_removed(w, DOMAIN w.streams \ IdsOf(streams_), 1, e)
  IN  sync_each(w1, streams_, e, <<>>)

\* ------------------------------------------------------------- registry handlers
\* (mutant of normalize: an id is generated for every entry, also for one
\* that has an id)
normalize_regen(d, gen) ==
  Put(IF "enabled" \in DOMAIN d THEN d ELSE Put(d, "enabled", TRUE), "id", gen)

\* "Set defaults": enabled=true when the key is missing, a uuid-derived id
\* (gen) when the id is missing or empty
normalize(d, gen) ==
  LET d1 == IF "enabled" \in DOMAIN d THEN d ELSE Put(d, "enabled", TRUE)
  IN  IF Get(d1, "id", NoId) = NoId THEN Put(d1, "id", gen) ELSE d1

\* add_stream
add_stream(w, d, gen, e) ==
  LET r == sync_stream_to_gstreamer(w, normalize(d, gen), e)
  IN  [w |-> r.w, exc |-> r.exc,
       ret |-> IF Raised(r.exc) THEN <<>> ELSE get_all_streams(r.w)]

\* (mutant of update_stream: the stored enabled flag wins over the update's)
update_stream_noenable(w, stream_id, stream_update, e) ==
  LET existing == get_stream_by_id(w, stream_id)
      merged0 == Merge(stream_update, existing.d)
      merged1 == IF "enabled" \in DOMAIN merged0 THEN merged0 ELSE Put(merged0, "enabled", TRUE)
      merged == Put(merged1, "id", stream_id)
      r == sync_stream_to_gstreamer(w, merged, e)
  IN  IF ~existing.ok
      THEN [w |-> w, exc |-> Exc("ValueError", "Stream not found"), ret |-> <<>>]
      ELSE [w |-> r.w, exc |-> r.exc,
            ret |-> IF Raised(r.exc) THEN <<>> ELSE get_all_streams(r.w)]

\* update_stream
update_stream(w, stream_id, stream_update, e) ==
  LET existing == get_stream_by_id(w, stream_id)
      merged0 == Merge(existing.d, stream_update)
      merged1 == IF "enabled" \in DOMAIN merged0 THEN merged0 ELSE Put(merged0, "enabled", TRUE)
      merged == Put(merged1, "id", stream_id)
      r == sync_stream_to_gstreamer(w, merged, e)
  IN  IF ~existing.ok
      THEN [w |-> w, exc |-> Exc("ValueError", "Stream not found"), ret |-> <<>>]
      ELSE [w |-> r.w, exc |-> r.exc,
            ret |-> IF Raised(r.exc) THEN <<>> ELSE get_all_streams(r.w)]

\* delete_stream
delete_stream(w, stream_id, e) ==
  LET existing == get_stream_by_id(w, stream_id)
      w1 == stop_stream(w, stream_id, e)
      w2 == Log([w1 EXCEPT !.conf = Del(@, stream_id)], "rm", stream_id, "")
  IN  IF ~existing.ok
      THEN [w |-> w, exc |-> Exc("ValueError", "Stream not found"), ret |-> <<>>]
      ELSE IF stream_id \notin DOMAIN w1.conf
      THEN [w |-> w1, exc |-> NoExc, ret |-> get_all_streams(w1)]
      ELSE IF ~e.fs
      THEN [w |-> Log(w1, "rm_failed", stream_id, ""),
            exc |-> Exc("CalledProcessError", "Command sudo rm returned non-zero exit status 1"),
            ret |-> <<>>]
      ELSE [w |-> w2, exc |-> NoExc, ret |-> get_all_streams(w2)]

\* the loop `for stream_id in current_ids - new_ids` of replace_all_streams:
\* delete_stream, every exception caught
RECURSIVE delete_removed(_, _, _, _)
delete_removed(w, ids, i, e) ==
  IF i > LastId THEN w
  ELSE delete_removed(IF i \in ids THEN delete_stream(w, i, e).w ELSE w, ids, i + 1, e)

\* (mutant of normalize_all: the list comes out in reverse order)
normalize_all_rev(ds, gens) ==
  [k \in DOMAIN ds |-> normalize(ds[Len(ds) + 1 - k], gens[k])]

normalize_all(ds, gens) == [k \in DOMAIN ds |-> normalize(ds[k], gens[k])]

\* replace_all_streams
replace_all_streams(w, ds, gens, e) ==
  LET streams_ == normalize_all(ds, gens)
      current_ids == DOMAIN w.conf
      new_ids == IdsOf(streams_)
      w1 == delete_removed(w, current_ids \ new_ids, 1, e)
      r == sync_all_streams_to_gstreamer(w1, e)
  IN  [w |-> r.w, exc |-> NoExc, ret |-> streams_, failed |-> r.failed]

\* SupervisorStreamManager.stop_all
RECURSIVE stop_all(_, _, _)
stop_all(w, i, e) ==
  IF i > LastId THEN w ELSE stop_all(stop_stream(w, i, e), i + 1, e)

\* ------------------------------------------------------------- JSON registry
\* api/streams_routes.py keeps the registry as the list data['streams'] of a
\* JSON document.  A StreamModel dict has the keys id, mode, port, hw_device,
\* enabled (id NoId and hw_device "" stand for None); the port is an int.

\* _read_provider_config: the list of the document, enabled defaulted to True
read_provider_config(d) ==
  [k \in DOMAIN d |-> IF "enabled" \in DOMAIN d[k] THEN d[k] ELSE Put(d[k], "enabled", TRUE)]

\* _read_provider_config on the file: a document that does not parse is
\* read as the empty list
read_provider_file(d, t) == IF t THEN <<>> ELSE read_provider_config(d)

\* _write_provider_config cut short after open(path, 'w') truncated the file
\* (the process killed, the disk full): what json.dump got out is a prefix
\* of the new document, which does not parse
write_provider_config_cut(ss, gens) == [doc |-> <<>>, torn |-> TRUE]

\* _write_provider_config: enabled defaulted, a uuid-derived id (gens[k]) for
\* every entry without one, then the whole list is dumped
write_provider_config(ss, gens) ==
  [k \in DOMAIN ss |-> normalize(ss[k], gens[k])]

\* the test of the update / delete loops:
\* str(s.get('id', i)) == str(stream_id) or str(i) == str(stream_id),
\* i the position in the list counted from 0
Matches(ss, k, stream_id) ==
  \/ py_str(Get(ss[k], "id", k - 1)) = py_str(stream_id)
  \/ py_str(k - 1) = py_str(stream_id)

\* POST /streams
routes_add_stream(d, stream, gen) ==
  LET sdict0 == IF "enabled" \in DOMAIN stream THEN stream ELSE Put(stream, "enabled", TRUE)
      sdict == IF Get(sdict0, "id", NoId) = NoId THEN Put(sdict0, "id", gen) ELSE sdict0
      ss == Append(read_provider_config(d), sdict)
  IN  [doc |-> write_provider_config(ss, [k \in DOMAIN ss |-> gen]),
       status |-> 200, ret |-> ss]

\* PATCH /streams/{stream_id}: the first matching entry is merged with the
\* fields the request set
routes_update_stream(d, stream_id, stream_update, gen) ==
  LET ss == read_provider_config(d)
      hits == {k \in DOMAIN ss : Matches(ss, k, stream_id)}
  IN  IF hits = {}
      THEN [doc |-> d, status |-> 404, ret |-> <<>>]
      ELSE LET i == CHOOSE k \in hits : \A j \in hits : k <= j
               merged0 == Merge(ss[i], stream_update)
               merged1 == IF "enabled" \in DOMAIN merged0 THEN merged0
                          ELSE Put(merged0, "enabled", TRUE)
               merged == IF Get(merged1, "id", NoId) = NoId
                         THEN Put(merged1, "id",
                                  IF Get(ss[i], "id", NoId) # NoId THEN ss[i].id ELSE gen)
                         ELSE merged1
               ss1 == [ss EXCEPT ![i] = merged]
           IN  [doc |-> write_provider_config(ss1, [k \in DOMAIN ss1 |-> gen]),
                status |-> 200, ret |-> ss1]

\* DELETE /streams/{stream_id}: every matching entry is dropped
routes_delete_stream(d, stream_id, gen) ==
  LET ss == read_provider_config(d)
      hits == {k \in DOMAIN ss : Matches(ss, k, stream_id)}
      new_streams == SelectSeq([k \in DOMAIN ss |-> [at |-> k, s |-> ss[k]]],
                               LAMBDA x : x.at \notin hits)
      ss1 == [k \in DOMAIN new_streams |-> new_streams[k].s]
  IN  IF hits = {}
      THEN [doc |-> d, status |-> 404, ret |-> <<>>]
      ELSE [doc |-> write_provider_config(ss1, [k \in DOMAIN ss1 |-> gen]),
            status |-> 200, ret |-> ss1]

\* PUT /streams
routes_replace_streams(ss, gens) ==
  LET ss1 == normalize_all(ss, gens)
  IN  [doc |-> write_provider_config(ss1, gens), status |-> 200, ret |-> ss1]

\* ------------------------------------------------------------- server processes
\* The handlers of streams_routes.py take no lock on the JSON file.  Inside
\* one event loop an `async def` handler without an await runs from its read
\* to its write undisturbed; two server processes (uvicorn workers) do not
\* wait for one another.
Workers == {1, 2}
Idle == [pc |-> "idle", stream |-> EmptyDict, gen |-> 1, snap |-> <<>>]

\* The functions of stream_manager.py block in subprocess.run and time.sleep
\* and take no lock on the manager's map or on a stream id: threads that call
\* them run side by side.
Threads == {1, 2}
NoCfg == [stream_id |-> NoId, kind |-> "", port |-> 0, device |-> ""]
IdleThread == [pc |-> "idle", id |-> NoId, cfg |-> NoCfg, exc |-> "none"]

\* ------------------------------------------------------------- a command that hangs
\* _supervisorctl is subprocess.run(cmd, capture_output=True, text=True,
\* check=False), without timeout: a command the supervisor never answers
\* never returns.  sync_hangs is the world at the moment the first
\* supervisorctl command of _sync_stream_to_gstreamer(d) blocks: `stop` for
\* an id in the manager's map, else `update` after the unit definition is
\* written (blocked = FALSE: the sync issues no supervisorctl command).
sync_hangs(w, d) ==
  LET stream_id == Get(d, "id", NoId)
      enabled == Get(d, "enabled", TRUE)
      c == dict_to_stream_config(d)
  IN  IF ~c.ok THEN [w |-> w, blocked |-> FALSE]
      ELSE IF stream_id \in DOMAIN w.streams THEN [w |-> w, blocked |-> TRUE]
      ELSE IF ~AES67Stream_ok(c.cfg) THEN [w |-> w, blocked |-> FALSE]
      ELSE [w |-> create_supervisor_config(
                    IF enabled THEN [w EXCEPT !.streams = Put(@, stream_id, c.cfg)] ELSE w,
                    c.cfg, enabled, AllFine).w,
            blocked |-> TRUE]

NoPass == [pc |-> "idle", todo |-> <<>>, failed |-> {}, hung |-> NoId]

\* no AES67Stream constructed yet
NoStream == [made |-> FALSE]

\* no start has failed yet
NoDiag == [state |-> "", tail |-> {}, msg |-> ""]

\* ------------------------------------------------------------- state
VARIABLES
  confDir,                 \* SUPERVISOR_CONF_DIR: stream id -> unit definition
  streams,                 \* _supervisor_manager.streams: id -> StreamConfig
  sup,                     \* the supervisor's units: id -> state name
  startup_failed_streams,  \* _startup_failed_streams (the ids of its entries)
  app,                     \* "down" before lifespan startup / after shutdown, else "up"
  faults,                  \* handlers that met an environment fault so far
  doc,                     \* data['streams'] of the JSON registry document
  torn,                    \* the JSON file holds a document cut short (json.load raises)
  threads,                 \* the threads calling update_stream: idle, or at a step of
                           \* _sync_stream_to_gstreamer
  pass,                    \* the reconciliation pass of lifespan startup, step by step:
                           \* where it is, the entries still to sync, the failures so far
  diag,                    \* the start that failed last: the tail of the unit's stderr
                           \* log and the message of the error raised
  built,                   \* the AES67Stream object constructed last: its config and
                           \* pipeline_str (ok = FALSE: __init__ raised ValueError)
  workers,                 \* the server processes: idle, or in POST /streams between its
                           \* read of the JSON file and its write
  last                     \* the handler that ran last: op, addressed id, exception
                           \* type raised ("none" if it returned), ids of failed_streams

vars == <<confDir, streams, sup, startup_failed_streams, app, faults, doc, torn, workers, threads, pass, diag, built, last>>

World == [conf |-> confDir, streams |-> streams, sup |-> sup, log |-> <<>>]

FailedIds(failed) == {failed[k].id : k \in DOMAIN failed}

\* the environment of one handler run, within the fault budget
Meets(e) ==
  /\ Faulty(e) => faults < MaxFaults
  /\ faults' = IF Faulty(e) THEN faults + 1 ELSE faults

Commit(w) ==
  /\ confDir' = w.conf
  /\ streams' = w.streams
  /\ sup' = w.sup

\* ------------------------------------------------------------- inputs
AddInputs ==
  { [kind |-> "sender", port |-> "5004"], [kind |-> "sender", port |-> "abc"] }
  \cup { [id |-> i, kind |-> "sender", port |-> "5004", enabled |-> FALSE] : i \in StreamIds }
  \cup { [id |-> i, kind |-> "bogus", port |-> "5004"] : i \in StreamIds }

UpdateInputs ==
  { EmptyDict, [port |-> "5006"], [port |-> "abc"], [kind |-> "bogus"],
    [enabled |-> FALSE], [id |-> 1, enabled |-> TRUE] }

ReplaceInputs ==
  { <<>>,
    << [kind |-> "sender", port |-> "5004"] >>,
    << [id |-> 1, kind |-> "sender", port |-> "5006"] >>,
    << [id |-> 2, kind |-> "sender", port |-> "5004", enabled |-> FALSE],
       [kind |-> "sender", port |-> "5004"] >> }

\* the inputs of the runs with environment faults
AddInputsF ==
  { [kind |-> "sender", port |-> "5004"] }
  \cup { [id |-> i, kind |-> "sender", port |-> "5004", enabled |-> FALSE] : i \in StreamIds }
UpdateInputsF == { EmptyDict, [enabled |-> FALSE], [enabled |-> TRUE] }
ReplaceInputsF == { <<>>, << [id |-> 1, kind |-> "sender", port |-> "5004"] >> }

\* the uuid4 draws of replace_all_streams, one per entry that lacks an id
GensFor(ds) ==
  { g \in [DOMAIN ds -> StreamIds] :
      \A k \in DOMAIN ds : Get(ds[k], "id", NoId) # NoId => g[k] = 1 }

\* ------------------------------------------------------------- actions
Init ==
  /\ confDir = <<>>
  /\ streams = <<>>
  /\ sup = [i \in StreamIds |-> "ABSENT"]
  /\ startup_failed_streams = {}
  /\ app = "down"
  /\ faults = 0
  /\ doc = <<>>
  /\ torn = FALSE
  /\ workers = [p \in Workers |-> Idle]
  /\ threads = [t \in Threads |-> IdleThread]
  /\ pass = NoPass
  /\ diag = NoDiag
  /\ built = NoStream
  /\ last = [op |-> "init", id |-> NoId, exc |-> "none", failed |-> {}]

\* lifespan startup: initialize_streams -> _sync_all_streams_to_gstreamer(save_failures=True)
Startup(E) ==
  /\ app = "down"
  /\ \E e \in E :
       LET r == sync_all_streams_to_gstreamer(World, e)
       IN  /\ Meets(e)
           /\ Commit(r.w)
           /\ startup_failed_streams' = FailedIds(r.failed)
           /\ last' = [op |-> "startup", id |-> NoId, exc |-> "none",
                       failed |-> FailedIds(r.failed)]
  /\ app' = "up"
  /\ UNCHANGED <<built, diag, pass, doc, torn, workers, threads>>

\* lifespan shutdown: shutdown_stream_manager -> stop_all, manager dropped
Shutdown(E) ==
  /\ app = "up"
  /\ \E e \in E :
       /\ Meets(e)
       /\ Commit([stop_all(World, 1, e) EXCEPT !.streams = <<>>])
       /\ last' = [op |-> "shutdown", id |-> NoId, exc |-> "none", failed |-> {}]
  /\ app' = "down"
  /\ UNCHANGED <<built, diag, pass, startup_failed_streams, doc, torn, workers, threads>>

Add(D, E) ==
  /\ app = "up"
  /\ \E d \in D, gen \in StreamIds, e \in E :
       /\ ("id" \in DOMAIN d => gen = 1)
       /\ Meets(e)
       /\ LET r == add_stream(World, d, gen, e)
          IN  /\ Commit(r.w)
              /\ last' = [op |-> "add", id |-> Get(normalize(d, gen), "id", NoId),
                          exc |-> r.exc.type, failed |-> {}]
  /\ UNCHANGED <<built, diag, pass, startup_failed_streams, app, doc, torn, workers, threads>>

Update(D, E) ==
  /\ app = "up"
  /\ \E id \in StreamIds, u \in D, e \in E :
       LET r == update_stream(World, id, u, e)
       IN  /\ Meets(e)
           /\ Commit(r.w)
           /\ last' = [op |-> "update", id |-> id, exc |-> r.exc.type, failed |-> {}]
  /\ UNCHANGED <<built, diag, pass, startup_failed_streams, app, doc, torn, workers, threads>>

Delete(E) ==
  /\ app = "up"
  /\ \E id \in StreamIds, e \in E :
       LET r == delete_stream(World, id, e)
       IN  /\ Meets(e)
           /\ Commit(r.w)
           /\ last' = [op |-> "delete", id |-> id, exc |-> r.exc.type, failed |-> {}]
  /\ UNCHANGED <<built, diag, pass, startup_failed_streams, app, doc, torn, workers, threads>>

ReplaceAll(D, E) ==
  /\ app = "up"
  /\ \E ds \in D, e \in E :
       \E gens \in GensFor(ds) :
         LET r == replace_all_streams(World, ds, gens, e)
         IN  /\ Meets(e)
             /\ Commit(r.w)
             /\ last' = [op |-> "replace", id |-> NoId, exc |-> "none",
                         failed |-> FailedIds(r.failed)]
  /\ UNCHANGED <<built, diag, pass, startup_failed_streams, app, doc, torn, workers, threads>>

\* a unit definition is deleted from the conf dir behind the program's back
OutOfBandDelete ==
  /\ \E id \in DOMAIN confDir :
       /\ confDir' = Del(confDir, id)
       /\ last' = [op |-> "oob", id |-> id, exc |-> "none", failed |-> {}]
  /\ UNCHANGED <<built, diag, pass, streams, sup, startup_failed_streams, app, faults, doc, torn, workers, threads>>

\* the program in an environment without faults
Next ==
  \/ Startup(Envs)
  \/ Shutdown(Envs0)
  \/ Add(AddInputs, Envs1)
  \/ Update(UpdateInputs, Envs1)
  \/ Delete(Envs0)
  \/ ReplaceAll(ReplaceInputs, Envs)
  \/ OutOfBandDelete

Spec == Init /\ [][Next]_vars

\* the program in an environment where up to MaxFaults handlers meet a
\* failing sudo file command or an unreachable supervisor
NextF ==
  \/ Startup(Envs \cup Faults)
  \/ Shutdown(Envs0 \cup Faults)
  \/ Add(AddInputsF, Envs1 \cup Faults)
  \/ Update(UpdateInputsF, Envs1 \cup Faults)
  \/ Delete(Envs0 \cup Faults)
  \/ ReplaceAll(ReplaceInputsF, Envs \cup Faults)

FaultSpec == Init /\ [][NextF]_vars

\* ------------------------------------------------------------- HTTP routes
\* request bodies of POST and PUT (StreamModel.dict(): every key present)
StreamModels ==
  { [id |-> i, mode |-> "sender", port |-> DefaultPort, hw_device |-> h, enabled |-> TRUE] :
      i \in {NoId} \cup StreamIds, h \in {"", "hw:0"} }
\* request bodies of PATCH (dict(exclude_unset=True): mode and port are
\* required, the other keys only when the request set them)
StreamUpdates ==
  { [mode |-> "sender", port |-> AltPort],
    [mode |-> "sender", port |-> DefaultPort, enabled |-> FALSE],
    [mode |-> "sender", port |-> DefaultPort, id |-> LastId] }
\* the stream_id of a request path: an id, or "0"
PathIds == {0} \cup StreamIds
StreamLists ==
  { <<>>,
    << [id |-> NoId, mode |-> "sender", port |-> DefaultPort, hw_device |-> "", enabled |-> TRUE] >> }

\* request bodies of the POSTs of the server processes
RaceModels ==
  { [id |-> i, mode |-> "sender", port |-> DefaultPort, hw_device |-> "", enabled |-> TRUE] :
      i \in {NoId} \cup StreamIds }

CoreUnchanged == UNCHANGED <<built, diag, pass, confDir, streams, sup, startup_failed_streams, app, faults, workers, threads>>

\* what the handlers read from the JSON file
Persisted == read_provider_file(doc, torn)

RoutesAdd ==
  /\ app = "up"
  /\ Len(doc) < MaxDoc
  /\ \E stream \in StreamModels, gen \in StreamIds :
       LET r == routes_add_stream(Persisted, stream, gen)
       IN  /\ doc' = r.doc
           /\ torn' = FALSE
           /\ last' = [op |-> "POST", id |-> r.doc[Len(r.doc)].id, exc |-> "none", failed |-> {}]
  /\ CoreUnchanged

RoutesUpdate ==
  /\ app = "up"
  /\ \E stream_id \in PathIds, u \in StreamUpdates, gen \in StreamIds :
       LET r == routes_update_stream(Persisted, stream_id, u, gen)
       IN  /\ doc' = r.doc
           /\ torn' = (torn /\ r.status = 404)
           /\ last' = [op |-> "PATCH", id |-> stream_id,
                       exc |-> IF r.status = 404 THEN "HTTPException" ELSE "none",
                       failed |-> {}]
  /\ CoreUnchanged

RoutesDelete ==
  /\ app = "up"
  /\ \E stream_id \in PathIds, gen \in StreamIds :
       LET r == routes_delete_stream(Persisted, stream_id, gen)
       IN  /\ doc' = r.doc
           /\ torn' = (torn /\ r.status = 404)
           /\ last' = [op |-> "DELETE", id |-> stream_id,
                       exc |-> IF r.status = 404 THEN "HTTPException" ELSE "none",
                       failed |-> {}]
  /\ CoreUnchanged

RoutesReplace ==
  /\ app = "up"
  /\ \E ss \in StreamLists : \E gens \in GensFor(ss) :
       /\ doc' = routes_replace_streams(ss, gens).doc
       /\ torn' = FALSE
       /\ last' = [op |-> "PUT", id |-> NoId, exc |-> "none", failed |-> {}]
  /\ CoreUnchanged

\* a POST whose _write_provider_config is cut short: the process is killed
\* while it writes, and the manager it held is gone with it
RoutesAddCut ==
  /\ app = "up"
  /\ \E stream \in StreamModels, gen \in StreamIds :
       LET ss == routes_add_stream(Persisted, stream, gen).ret
           f == write_provider_config_cut(ss, [k \in DOMAIN ss |-> gen])
       IN  /\ doc' = f.doc
           /\ torn' = f.torn
           /\ last' = [op |-> "POST", id |-> ss[Len(ss)].id, exc |-> "killed", failed |-> {}]
  /\ app' = "down"
  /\ streams' = <<>>
  /\ UNCHANGED <<built, diag, pass, confDir, sup, startup_failed_streams, faults, workers, threads>>

\* the HTTP API over the JSON registry, the app started by its lifespan
NextR ==
  \/ Startup(Envs0)
  \/ Shutdown(Envs0)
  \/ RoutesAdd
  \/ RoutesUpdate
  \/ RoutesDelete
  \/ RoutesReplace
  \/ RoutesAddCut

RoutesSpec == Init /\ [][NextR]_vars

\* POST /streams in server process p, up to and including
\* cfg = _read_provider_config(provider)
WorkerRead(p) ==
  /\ app = "up"
  /\ workers[p].pc = "idle"
  /\ Len(Persisted) < MaxDoc
  /\ \E stream \in RaceModels, gen \in StreamIds :
       workers' = [workers EXCEPT ![p] =
                     [pc |-> "read", stream |-> stream, gen |-> gen, snap |-> Persisted]]
  /\ UNCHANGED <<built, diag, pass, confDir, streams, sup, startup_failed_streams, app, faults, doc, torn, threads, last>>

\* the rest of that POST: the entry is appended to the list that was read and
\* the list is written
WorkerWrite(p) ==
  /\ workers[p].pc = "read"
  /\ LET r == routes_add_stream(workers[p].snap, workers[p].stream, workers[p].gen)
     IN  /\ doc' = r.doc
         /\ torn' = FALSE
         /\ last' = [op |-> "POST", id |-> r.doc[Len(r.doc)].id, exc |-> "none", failed |-> {}]
  /\ workers' = [workers EXCEPT ![p] = Idle]
  /\ UNCHANGED <<built, diag, pass, confDir, streams, sup, startup_failed_streams, app, faults, threads>>

\* the HTTP API served by the processes of Workers
NextW ==
  \/ Startup(Envs0)
  \/ \E p \in Workers : WorkerRead(p)
  \/ \E p \in Workers : WorkerWrite(p)
  \/ RoutesReplace

WorkersSpec == Init /\ [][NextW]_vars

\* ------------------------------------------------------------- threads
\* update_stream(stream_id, u) of an enabled stream, step by step, in thread
\* t, every external command succeeding
ThreadUpdates == { [port |-> "5004"], [port |-> "5006"] }
ThreadRest == UNCHANGED <<built, diag, pass, startup_failed_streams, app, faults, doc, torn, workers>>
At(t, pc) == threads[t].pc = pc
Goto(t, pc) == threads' = [threads EXCEPT ![t].pc = pc]

\* update_stream up to the test `if stream_id in manager.streams` of
\* _sync_stream_to_gstreamer: the definition is read and merged, the
\* StreamConfig is built
SyncBegin(t) ==
  /\ app = "up"
  /\ At(t, "idle")
  /\ \E id \in StreamIds, u \in ThreadUpdates :
       LET existing == get_stream_by_id(World, id)
           merged == Put(Put(Merge(existing.d, u), "enabled", TRUE), "id", id)
       IN  /\ existing.ok
           /\ threads' = [threads EXCEPT ![t] =
                [pc |-> IF id \in DOMAIN streams THEN "stop" ELSE "assign",
                 id |-> id, cfg |-> dict_to_stream_config(merged).cfg, exc |-> "none"]]
  /\ UNCHANGED <<confDir, streams, sup, last>>
  /\ ThreadRest

\* manager.stop_stream: `if stream_id in self.streams: self.streams[stream_id].stop()`
SyncStop(t) ==
  /\ At(t, "stop")
  /\ IF threads[t].id \in DOMAIN streams
     THEN /\ Commit(AES67Stream_stop(World, streams[threads[t].id], AllFine))
          /\ Goto(t, "del")
     ELSE /\ UNCHANGED <<confDir, streams, sup>>
          /\ Goto(t, "assign")
  /\ UNCHANGED last
  /\ ThreadRest

\* manager.stop_stream: `del self.streams[stream_id]`; the KeyError of a
\* missing key is caught in _sync_stream_to_gstreamer and raised as RuntimeError
SyncDel(t) ==
  /\ At(t, "del")
  /\ IF threads[t].id \in DOMAIN streams
     THEN /\ streams' = Del(streams, threads[t].id)
          /\ Goto(t, "assign")
     ELSE /\ UNCHANGED streams
          /\ threads' = [threads EXCEPT ![t].pc = "done", ![t].exc = "RuntimeError"]
  /\ UNCHANGED <<confDir, sup, last>>
  /\ ThreadRest

\* stream = AES67Stream(config); manager.streams[stream_id] = stream
SyncAssign(t) ==
  /\ At(t, "assign")
  /\ streams' = Put(streams, threads[t].id, threads[t].cfg)
  /\ Goto(t, "write")
  /\ UNCHANGED <<confDir, sup, last>>
  /\ ThreadRest

\* stream.start: _create_supervisor_config(enabled=True)
SyncWrite(t) ==
  /\ At(t, "write")
  /\ confDir' = create_supervisor_config(World, threads[t].cfg, TRUE, AllFine).w.conf
  /\ Goto(t, "verify")
  /\ UNCHANGED <<streams, sup, last>>
  /\ ThreadRest

\* stream.start: supervisorctl update, sleep, status query (the unit runs)
SyncVerify(t) ==
  /\ At(t, "verify")
  /\ sup' = supervisorctl_update(World, threads[t].id, AllFine).sup
  /\ Goto(t, "done")
  /\ UNCHANGED <<confDir, streams, last>>
  /\ ThreadRest

\* update_stream returns or raises
SyncReturn(t) ==
  /\ At(t, "done")
  /\ last' = [op |-> "update", id |-> threads[t].id, exc |-> threads[t].exc, failed |-> {}]
  /\ threads' = [threads EXCEPT ![t] = IdleThread]
  /\ UNCHANGED <<confDir, streams, sup>>
  /\ ThreadRest

\* the core called from the threads of Threads (streams are added while no
\* update is in progress)
NextT ==
  \/ Startup(Envs0)
  \/ (\A t \in Threads : At(t, "idle")) /\ Add({[kind |-> "sender", port |-> "5004"]}, Envs0)
  \/ \E t \in Threads : SyncBegin(t)
  \/ \E t \in Threads : SyncStop(t)
  \/ \E t \in Threads : SyncDel(t)
  \/ \E t \in Threads : SyncAssign(t)
  \/ \E t \in Threads : SyncWrite(t)
  \/ \E t \in Threads : SyncVerify(t)
  \/ \E t \in Threads : SyncReturn(t)

ThreadsSpec == Init /\ [][NextT]_vars

\* ------------------------------------------------------------- the pass, step by step
\* initialize_streams -> _sync_all_streams_to_gstreamer(save_failures=True),
\* one step per entry of the loop `for stream_data in streams`.  H: the ids
\* of the units for which the supervisor may stop answering during the pass
\* (NoId: it answers every command).
PassBegin(H) ==
  /\ app = "down"
  /\ pass.pc = "idle"
  /\ \E h \in H :
       LET streams_ == get_all_streams(World)
       IN  /\ Commit(stop_removed(World, DOMAIN streams \ IdsOf(streams_), 1, AllFine))
           /\ pass' = [pc |-> "loop", todo |-> streams_, failed |-> {}, hung |-> h]
  /\ app' = "starting"
  /\ UNCHANGED <<built, diag, startup_failed_streams, faults, doc, torn, workers, threads, last>>

\* one iteration of the loop: _sync_stream_to_gstreamer(stream_data) in
\* try/except; the thread stays in subprocess.run when the command hangs
PassSync ==
  /\ pass.pc = "loop"
  /\ pass.todo # <<>>
  /\ LET d == Head(pass.todo)
          id == Get(d, "id", NoId)
          h == sync_hangs(World, d)
     IN  IF id = pass.hung /\ h.blocked
         THEN /\ Commit(h.w)
              /\ pass' = [pass EXCEPT !.pc = "blocked"]
         ELSE \E e \in Envs1 :
                LET r == sync_stream_to_gstreamer(World, d, e)
                IN  /\ Commit(r.w)
                    /\ pass' = [pass EXCEPT !.todo = Tail(@),
                                            !.failed = IF Raised(r.exc) THEN @ \cup {id} ELSE @]
  /\ UNCHANGED <<built, diag, startup_failed_streams, app, faults, doc, torn, workers, threads, last>>

\* the loop is over: _startup_failed_streams = failed_streams, the pass
\* returns and the application serves
PassReturn ==
  /\ pass.pc = "loop"
  /\ pass.todo = <<>>
  /\ startup_failed_streams' = pass.failed
  /\ last' = [op |-> "startup", id |-> NoId, exc |-> "none", failed |-> pass.failed]
  /\ app' = "up"
  /\ pass' = NoPass
  /\ UNCHANGED <<built, diag, confDir, streams, sup, faults, doc, torn, workers, threads>>

HangInputs ==
  { [kind |-> "sender", port |-> "5004"],
    [kind |-> "sender", port |-> "5006", enabled |-> FALSE] }

\* the program with a supervisor that may stop answering during a startup pass
NextH ==
  \/ PassBegin(StreamIds \cup {NoId})
  \/ PassSync
  \/ PassReturn
  \/ Add(HangInputs, Envs1)
  \/ Update({[enabled |-> TRUE], [enabled |-> FALSE]}, Envs0)
  \/ Shutdown(Envs0)

\* the thread of the pass keeps running: every step that can be taken is taken
HangSpec == Init /\ [][NextH]_vars /\ WF_vars(PassSync) /\ WF_vars(PassReturn)

\* ------------------------------------------------------------- units that exit
\* The state names `supervisorctl status` prints for a unit whose process
\* has ended: supervisord restarts it (BACKOFF), gives up (FATAL) or leaves
\* it (EXITED).
ExitStates == {"BACKOFF", "FATAL", "EXITED"}

\* the gst-launch process of a running unit ends
UnitExits ==
  /\ \E id \in StreamIds, s \in ExitStates :
       /\ sup[id] = "RUNNING"
       /\ sup' = [sup EXCEPT ![id] = s]
       /\ last' = [op |-> "exit", id |-> id, exc |-> "none", failed |-> {}]
  /\ UNCHANGED <<built, diag, pass, confDir, streams, startup_failed_streams, app, faults, doc, torn, workers, threads>>

\* the program with units whose process may end at any time
NextU ==
  \/ Startup(Envs0)
  \/ Shutdown(Envs0)
  \/ Add(HangInputs, Envs1)
  \/ Update({[enabled |-> TRUE], [enabled |-> FALSE]}, Envs0)
  \/ Delete(Envs0)
  \/ UnitExits

UnitsSpec == Init /\ [][NextU]_vars

\* ------------------------------------------------------------- starts that fail
\* add_stream of an enabled sender whose unit does not come up: supervisord
\* reports it in state st and its stderr log ends with tail (the id drawn
\* is a new one)
AddFailing(S, T) ==
  /\ app = "up"
  /\ \E gen \in StreamIds, st \in S, tail \in T :
       LET e == [fs |-> TRUE, up |-> TRUE,
                 out |-> [i \in StreamIds |-> [state |-> st, tail |-> tail]]]
           r == add_stream(World, [kind |-> "sender", port |-> "5004"], gen, e)
       IN  /\ gen \notin DOMAIN confDir
           /\ Commit(r.w)
           /\ last' = [op |-> "add", id |-> gen, exc |-> r.exc.type, failed |-> {}]
           /\ diag' = [state |-> st, tail |-> tail, msg |-> r.exc.msg]
  /\ UNCHANGED <<built, pass, startup_failed_streams, app, faults, doc, torn, workers, threads>>

\* the tails in which up to MaxSigs kinds of line occur
Tails == {t \in SUBSET Signatures : Cardinality(t) <= MaxSigs}

\* the program with units that fail to start, whatever their stderr log holds
NextD ==
  \/ Startup(Envs0)
  \/ AddFailing({"FATAL", "BACKOFF"}, Tails)

DiagSpec == Init /\ [][NextD]_vars

\* ------------------------------------------------------------- construction
\* device names of up to MaxDev pieces
RECURSIVE DeviceNames(_)
DeviceNames(n) ==
  IF n = 0 THEN {<<>>}
  ELSE DeviceNames(n - 1)
         \cup {Append(s, t) : s \in {x \in DeviceNames(n - 1) : Len(x) = n - 1},
                              t \in DeviceTokens}

\* the StreamConfig objects a stream process is constructed from
StreamConfigs ==
  [stream_id : StreamIds,
   kind : {"sender", "receiver", "bogus"},
   ip : {"239.69.0.1"},
   port : {DefaultPort},
   device : DeviceNames(MaxDev),
   iface : {"eth0"},
   channels : {2},
   loopback : BOOLEAN,
   buffer_time : {100000},
   latency_time : {5000000},
   sync : BOOLEAN,
   format : {"S24BE"}]

\* AES67Stream(config): __init__ keeps the config and builds pipeline_str
Construct ==
  /\ \E c \in StreamConfigs :
       built' = [made |-> TRUE, config |-> c,
                 ok |-> build_pipeline_string(c).ok,
                 pipeline_str |-> build_pipeline_string(c).str]
  /\ UNCHANGED <<confDir, streams, sup, startup_failed_streams, app, faults, doc, torn,
                 workers, threads, pass, diag, last>>

NextP == Construct

PipelineSpec == Init /\ [][NextP]_vars

\* ============================================================= claims
\* helpers of the claims
Registry(w) == get_all_streams(w)
RegistryIds(w) == IdsOf(get_all_streams(w))
HasEntry(log, c, id) == \E k \in DOMAIN log : log[k].c = c /\ log[k].id = id
\* syncOne was attempted for the registry entry d: an enabled entry got as far
\* as its start request, a disabled one as far as writing its definition
Attempted(log, d) ==
  IF d.enabled THEN HasEntry(log, "start", d.id)
  ELSE \E k \in DOMAIN log :
         log[k].id = d.id /\ log[k].c \in {"write", "write_failed"} /\ log[k].r = "false"
AllEnvs == Envs \cup Faults
AllEnvs1 == Envs1 \cup Faults

\* C1: in every reconcile pass (_sync_all_streams_to_gstreamer), whatever
\* stream's syncOne raises, syncOne is attempted for every registry entry, and
\* the failure list holds one entry for exactly the ids whose start raised.
C1_PartialFailureIsolation ==
  \A e \in AllEnvs :
    LET reg == Registry(World)
        r == sync_all_streams_to_gstreamer(World, e)
    IN  /\ \A k \in DOMAIN reg : Attempted(r.w.log, reg[k])
        /\ FailedIds(r.failed) =
             {reg[k].id : k \in {j \in DOMAIN reg : HasEntry(r.w.log, "start_failed", reg[j].id)}}
        /\ Len(r.failed) = Cardinality(FailedIds(r.failed))

\* C1 witness: a pass in which stream 1 failed and stream 2 was started
C1_Witness ==
  /\ last.op = "replace"
  /\ last.failed = {1}
  /\ 2 \in DOMAIN streams
  /\ sup[2] = "RUNNING"

\* C2: when a reconcile pass (_sync_all_streams_to_gstreamer) returns, every
\* registry stream with enabled=true that is not in the failure list is in
\* the manager's map with a start that succeeded, and every entry of the map
\* is a stream the registry holds with enabled=true.
C2_Convergence ==
  \A e \in Envs :
    LET r == sync_all_streams_to_gstreamer(World, e)
        reg == Registry(r.w)
    IN  /\ \A k \in DOMAIN reg :
             reg[k].enabled /\ reg[k].id \notin FailedIds(r.failed)
               => /\ reg[k].id \in DOMAIN r.w.streams
                  /\ HasEntry(r.w.log, "started", reg[k].id)
        /\ \A id \in DOMAIN r.w.streams :
             \E k \in DOMAIN reg : reg[k].id = id /\ reg[k].enabled

\* C3: a reconcile pass stops and fully removes every id that is in the
\* manager's map but not in the registry: when the pass returns the id is
\* not in the map, listAll does not return it and no unit definition exists
\* for it.
C3_RemovedStaysRemoved ==
  \A e \in Envs :
    LET gone == DOMAIN streams \ RegistryIds(World)
        r == sync_all_streams_to_gstreamer(World, e)
    IN  \A id \in gone :
          /\ id \notin DOMAIN r.w.streams
          /\ id \notin RegistryIds(r.w)
          /\ id \notin DOMAIN r.w.conf

\* C4: right after replace_all_streams(configs) returns, listAll holds
\* exactly the submitted streams, with their ids and submitted field values,
\* and the returned list is that registry content.
C4_ReplaceSwapsFullSet ==
  app = "up" =>
    \A ds \in ReplaceInputs : \A gens \in GensFor(ds) :
      LET r == replace_all_streams(World, ds, gens, AllFine)
          reg == Registry(r.w)
      IN  /\ Len(reg) = Len(r.ret)
          /\ \A k \in DOMAIN r.ret :
               \E j \in DOMAIN reg :
                 /\ reg[j].id = r.ret[k].id
                 /\ \A f \in DOMAIN r.ret[k] : reg[j][f] = r.ret[k][f]

\* C5: a start request returns success only if a status query made during
\* that start saw the unit RUNNING.
C5_SuccessOnlyIfRunning ==
  app = "up" =>
    \A d \in AddInputs, gen \in StreamIds, e \in Envs1 :
      LET log == add_stream(World, d, gen, e).w.log
      IN  \A k \in DOMAIN log :
            log[k].c = "started"
              => \E j \in 1..(k - 1) :
                   /\ log[j].c = "status"
                   /\ log[j].id = log[k].id
                   /\ log[j].r = "RUNNING"

\* the stop-and-cleanup protocol (stop, remove, definition rewritten with
\* autostart=false) ran for the stream right before each failure of a start
\* was raised, and the error raised has a message
CleanupBeforeFailure(log) ==
  \A k \in DOMAIN log :
    log[k].c = "start_failed"
      => /\ k > 3
         /\ log[k - 3].c = "stop" /\ log[k - 3].id = log[k].id
         /\ log[k - 2].c = "remove" /\ log[k - 2].id = log[k].id
         /\ log[k - 1].c \in {"write", "write_failed"}
         /\ log[k - 1].id = log[k].id /\ log[k - 1].r = "false"
         /\ log[k].r # ""
\* every start request ends as a success or as a failure
StartsEnd(log) ==
  \A k \in DOMAIN log :
    log[k].c = "start"
      => \E j \in (k + 1)..Len(log) :
           log[j].id = log[k].id /\ log[j].c \in {"started", "start_failed"}
\* a failed start of the handler's stream reaches the caller with a message
Surfaced(r, id) ==
  HasEntry(r.w.log, "start_failed", id) => Raised(r.exc) /\ r.exc.msg # ""

\* C6: whenever a start request fails (the unit is reported in a state other
\* than RUNNING, or a step of the start raises), the stop-and-cleanup protocol
\* for that stream has run before the error reaches the caller, and the error
\* surfaced has a non-empty message.
C6_CleanupOnFailedStart ==
  /\ \A e \in AllEnvs :
       LET r == sync_all_streams_to_gstreamer(World, e)
       IN  /\ CleanupBeforeFailure(r.w.log)
           /\ StartsEnd(r.w.log)
           /\ \A k \in DOMAIN r.failed : r.failed[k].error # ""
  /\ \A e \in AllEnvs1 :
       /\ \A d \in AddInputs, gen \in StreamIds :
            LET r == add_stream(World, d, gen, e)
            IN  /\ CleanupBeforeFailure(r.w.log)
                /\ StartsEnd(r.w.log)
                /\ Surfaced(r, Get(normalize(d, gen), "id", NoId))
       /\ \A id \in StreamIds, u \in UpdateInputs :
            LET r == update_stream(World, id, u, e)
            IN  /\ CleanupBeforeFailure(r.w.log)
                /\ StartsEnd(r.w.log)
                /\ Surfaced(r, id)

\* C6 witness: an add whose start failed: the error reached the caller, the
\* unit is stopped and removed and its definition is left with autostart off
C6_Witness ==
  /\ last.op = "add"
  /\ last.exc = "RuntimeError"
  /\ last.id \in DOMAIN streams
  /\ last.id \in DOMAIN confDir
  /\ confDir[last.id].autostart = "false"
  /\ sup[last.id] = "ABSENT"

\* C7: update and delete raise the NotFound condition (ValueError) exactly
\* when the registry holds no entry with the given id, so a failure of an
\* update on an existing id is of another kind than NotFound.
C7_NotFoundIsDistinct ==
  app = "up" =>
    \A id \in StreamIds, e \in Envs1 :
      /\ \A u \in UpdateInputs :
           update_stream(World, id, u, e).exc.type = "ValueError"
             <=> ~get_stream_by_id(World, id).ok
      /\ delete_stream(World, id, e).exc.type = "ValueError"
           <=> ~get_stream_by_id(World, id).ok

\* a configuration that is rejected as invalid: a field that does not
\* convert, or a kind that is neither sender nor receiver
Invalid(d) ==
  \/ ~dict_to_stream_config(d).ok
  \/ ~AES67Stream_ok(dict_to_stream_config(d).cfg)

\* C8: when add or update is rejected for an invalid configuration, nothing
\* has happened: no supervisor command, no unit definition written, and the
\* map, the supervisor's units and the definitions are as before.
C8_InvalidHasNoSideEffect ==
  app = "up" =>
    \A e \in Envs1 :
      /\ \A d \in AddInputs, gen \in StreamIds :
           LET r == add_stream(World, d, gen, e)
           IN  Invalid(d) /\ Raised(r.exc) => r.w = World
      /\ \A id \in StreamIds, u \in UpdateInputs :
           LET r == update_stream(World, id, u, e)
           IN  Invalid(u) /\ Raised(r.exc) /\ get_stream_by_id(World, id).ok
                 => r.w = World

\* C9: no two registry entries share an id, and add never replaces or
\* overwrites an existing entry: an entry that was in the registry before an
\* add is there unchanged after it, and the add put one more entry beside it.
C9_AddNeverOverwrites ==
  /\ \A j, k \in DOMAIN Registry(World) :
       Registry(World)[j].id = Registry(World)[k].id => j = k
  /\ app = "up" =>
       \A d \in AddInputs, gen \in StreamIds :
         LET r == add_stream(World, d, gen, AllFine)
         IN  ~Raised(r.exc)
               => /\ \A id \in DOMAIN confDir :
                       id \in DOMAIN r.w.conf /\ r.w.conf[id] = confDir[id]
                  /\ Len(Registry(r.w)) = Len(Registry(World)) + 1

\* C10: an update addressed to the id of an existing entry leaves every
\* field that is not a key of the partial as it was, and the entry keeps the
\* id the update was addressed to, whatever id the partial supplies.
C10_UpdatePreserves ==
  app = "up" =>
    \A stream_id \in StreamIds, u \in StreamUpdates, gen \in StreamIds :
      LET old == read_provider_config(doc)
          hits == {k \in DOMAIN old : Matches(old, k, stream_id)}
          i == CHOOSE k \in hits : \A j \in hits : k <= j
          r == routes_update_stream(doc, stream_id, u, gen)
      IN  hits # {} /\ old[i].id = stream_id
            => /\ r.status = 200
               /\ r.doc[i].id = stream_id
               /\ \A f \in DOMAIN old[i] \ DOMAIN u : r.doc[i][f] = old[i][f]

\* C11: for an id present in the registry, delete(id) followed at once by
\* delete(id): the first call succeeds, the second yields NotFound and leaves
\* the registry as the first call left it.
C11_DeleteTwice ==
  app = "up" =>
    \A stream_id \in StreamIds, gen \in StreamIds :
      LET r1 == routes_delete_stream(doc, stream_id, gen)
          r2 == routes_delete_stream(r1.doc, stream_id, gen)
      IN  stream_id \in IdsOf(read_provider_config(doc))
            => /\ r1.status = 200
               /\ r2.status = 404
               /\ r2.doc = r1.doc

\* configurations that lack id and enabled: a JSON registry entry and a
\* stream_data of the core
BareEntries == { [mode |-> "sender", port |-> DefaultPort],
                 [id |-> NoId, mode |-> "sender", port |-> AltPort] }
BareStreams == { [kind |-> "sender", port |-> "5004"],
                 [id |-> NoId, kind |-> "receiver", port |-> "5006"] }

\* C12: writing a configuration that lacks id and enabled and reading it back
\* yields an entry with enabled=true and a generated id; writing what was read
\* back again leaves the id as it is and adds no entry.  Stated for the JSON
\* registry (_write_provider_config / _read_provider_config) and for the
\* unit definitions (add_stream / get_stream_by_id).
C12_NormalizationIdempotent ==
  /\ \A c \in BareEntries, gen \in StreamIds, gen2 \in StreamIds :
       LET ss == Append(read_provider_config(doc), c)
           n == Len(ss)
           d1 == write_provider_config(ss, [k \in DOMAIN ss |-> gen])
           rb == read_provider_config(d1)
           d2 == write_provider_config(rb, [k \in DOMAIN rb |-> gen2])
       IN  /\ Len(rb) = n
           /\ rb[n].enabled = TRUE
           /\ rb[n].id = gen
           /\ Len(d2) = n
           /\ \A k \in 1..n : d2[k].id = rb[k].id
           /\ read_provider_config(d2) = rb
  /\ \A d \in BareStreams, gen \in StreamIds, gen2 \in StreamIds, e \in Envs1, e2 \in Envs1 :
       LET r == add_stream(World, d, gen, e)
           rb == get_stream_by_id(r.w, gen)
           r2 == add_stream([r.w EXCEPT !.log = <<>>], rb.d, gen2, e2)
       IN  ~Raised(r.exc)
             => /\ rb.ok
                /\ rb.d.enabled = TRUE
                /\ rb.d.id = gen
                /\ RegistryIds(r2.w) = RegistryIds(r.w)
                /\ Len(Registry(r2.w)) = Len(Registry(r.w))
                /\ get_stream_by_id(r2.w, gen).d.id = gen

\* C12 witness: an add of a configuration without id and enabled succeeded
\* and its entry is read back with the generated id and enabled=true
C12_Witness ==
  /\ last.op = "add"
  /\ last.exc = "none"
  /\ get_stream_by_id(World, last.id).ok
  /\ get_stream_by_id(World, last.id).d.id = last.id
  /\ get_stream_by_id(World, last.id).d.enabled = TRUE

\* configurations without an id that add_stream is given, some fields omitted
RoundTripInputs ==
  { [kind |-> "sender", port |-> "5004"],
    [kind |-> "receiver", port |-> "5006", device |-> "hw:0,0"],
    [port |-> "5006"],
    [kind |-> "sender", device |-> "hw:1,0", enabled |-> TRUE] }
\* the submitted configuration with the id assigned and the defaults filled in
Submitted(d, gen) ==
  [id |-> gen,
   kind |-> Get(d, "kind", "receiver"),
   port |-> Get(d, "port", py_str(DefaultPort)),
   device |-> Get(d, "device", "default"),
   enabled |-> Get(d, "enabled", TRUE)]

\* C13: after add_stream succeeds for a configuration without an id, the list
\* it returns holds the new stream with a generated id and enabled=true, and
\* get_stream_by_id with that id returns, read back from the unit definition,
\* the submitted values with the defaults filled in.
C13_AddRoundTrip ==
  app = "up" =>
    \A d \in RoundTripInputs, gen \in StreamIds, e \in Envs1 :
      LET r == add_stream(World, d, gen, e)
          got == get_stream_by_id(r.w, gen)
      IN  ~Raised(r.exc)
            => /\ \E k \in DOMAIN r.ret : r.ret[k] = Submitted(d, gen)
               /\ Submitted(d, gen).id \in StreamIds
               /\ Submitted(d, gen).enabled = TRUE
               /\ got.ok
               /\ got.d = Submitted(d, gen)

\* C13 witness: an add without id succeeded, its stream runs, and the entry
\* read back is the submitted sender on port 5004 under the generated id
C13_Witness ==
  /\ last.op = "add"
  /\ last.exc = "none"
  /\ last.id \in DOMAIN streams
  /\ sup[last.id] = "RUNNING"
  /\ get_stream_by_id(World, last.id).d =
       [id |-> last.id, kind |-> "sender", port |-> "5004",
        device |-> "default", enabled |-> TRUE]

\* the list returned for the submitted list ds: as many entries, in the
\* submitted order, each with a non-empty id and an enabled value, a
\* submitted id kept
NormalizedFrom(ret, ds) ==
  /\ Len(ret) = Len(ds)
  /\ \A k \in DOMAIN ds :
       /\ Get(ret[k], "id", NoId) # NoId
       /\ "enabled" \in DOMAIN ret[k]
       /\ Get(ds[k], "id", NoId) # NoId => ret[k].id = ds[k].id
       /\ \A f \in DOMAIN ds[k] \ {"id"} : ret[k][f] = ds[k][f]
\* bodies of PUT /streams with two entries
StreamLists2 ==
  { << [id |-> LastId, mode |-> "sender", port |-> AltPort, hw_device |-> "", enabled |-> FALSE],
       [id |-> NoId, mode |-> "sender", port |-> DefaultPort, hw_device |-> "hw:0", enabled |-> TRUE] >> }

\* C14: replaceAll returns as many entries as were submitted, in the submitted
\* order, each with a non-empty id and an enabled value, and an entry
\* submitted with an id keeps it (replace_all_streams of the core, whatever
\* the environment does, and replace_streams of the routes).
C14_ReplaceReturnsNormalized ==
  /\ \A ds \in ReplaceInputs : \A gens \in GensFor(ds) : \A e \in AllEnvs1 :
       LET r == replace_all_streams(World, ds, gens, e)
       IN  ~Raised(r.exc) /\ NormalizedFrom(r.ret, ds)
  /\ \A ss \in StreamLists \cup StreamLists2 : \A gens \in GensFor(ss) :
       LET r == routes_replace_streams(ss, gens)
       IN  r.status = 200 /\ NormalizedFrom(r.ret, ss) /\ r.doc = r.ret

\* C14 witness: a replaceAll of the list <<stream 2, a stream without id>>
\* returned; stream 1 was not in the list and its definition is gone
C14_Witness ==
  /\ last.op = "replace"
  /\ last.exc = "none"
  /\ DOMAIN confDir = {2}
  /\ 2 \notin last.failed

\* C15: a write of the registry document that is interrupted leaves either
\* the complete previous content or the complete new content: a later read
\* returns one of the two, never an empty or different registry.
C15_WriteAllOrNothing ==
  app = "up" =>
    \A stream \in StreamModels, gen \in StreamIds :
      LET old == Persisted
          r == routes_add_stream(old, stream, gen)
          f == write_provider_config_cut(r.ret, [k \in DOMAIN r.ret |-> gen])
          after == read_provider_file(f.doc, f.torn)
      IN  after = old \/ after = read_provider_config(r.doc)

SameConfig(id) ==
  /\ confDir[id].stream_id = streams[id].stream_id
  /\ confDir[id].kind = streams[id].kind
  /\ confDir[id].port = py_str(streams[id].port)
  /\ confDir[id].device = streams[id].device

\* C17: mutations of one stream id are serialized: once the concurrent
\* update calls have finished, the unit definition and the map's entry for
\* the id describe the same configuration, and no call has failed because of
\* the other (here every external command succeeds, so none may fail).
C17_SerializedPerId ==
  /\ (\A t \in Threads : threads[t].pc \in {"idle", "done"})
       => \A id \in DOMAIN streams \cap DOMAIN confDir : SameConfig(id)
  /\ \A t \in Threads : threads[t].exc = "none"

\* C18: a supervisor command that never returns does not block the
\* reconciliation pass forever: a pass that has begun eventually returns
\* (the hung call times out and is counted as a failure), and the
\* application comes up.
C18_HungCallTimesOut == (pass.pc = "loop") ~> (pass.pc = "idle" /\ app = "up")

\* C19: get_startup_failed_streams returns the failure list of the most
\* recent reconcile pass: after the startup pass the failures of that pass,
\* after the pass run by replace_all_streams the failures of that later pass.
C19_FailuresOfLastPass ==
  last.op \in {"startup", "replace"} => startup_failed_streams = last.failed

\* C20: the state get_stream_status / get_state reports for a stream of the
\* manager's map is one of STOPPED, STARTING, RUNNING, ERROR, whatever the
\* supervisor says of the unit and whether or not it can be reached.
C20_ReportedStateInRange ==
  \A id \in DOMAIN streams, e \in {AllFine, SupDown} :
    get_stream_status(World, id, e) \in {"STOPPED", "STARTING", "RUNNING", "ERROR"}

\* an environment in which every unit is still STARTING at the status query
\* that follows time.sleep(0.5) and RUNNING on any query made later
SlowStart ==
  [fs |-> TRUE, up |-> TRUE,
   out |-> [i \in StreamIds |-> [state |-> "STARTING", tail |-> {}, later |-> "RUNNING"]]]

\* C21: start verification polls the unit's status until a bounded timeout:
\* a start whose unit is STARTING on the first query and RUNNING on a later
\* one succeeds (the add returns without error and a RUNNING status was seen).
C21_StartPollsUntilRunning ==
  app = "up" =>
    \A gen \in StreamIds :
      LET r == add_stream(World, [kind |-> "sender", port |-> "5004"], gen, SlowStart)
      IN  /\ ~Raised(r.exc)
          /\ \E k \in DOMAIN r.w.log :
               r.w.log[k].c = "status" /\ r.w.log[k].id = gen /\ r.w.log[k].r = "RUNNING"

\* in the log of a handler every status query is the fourth step of a start
\* request: start, definition written with autostart=true, supervisor update,
\* status, all for the same stream; and every start request begins with the
\* write of the definition
StartOrdered(log) ==
  /\ \A k \in DOMAIN log :
       log[k].c = "status"
         => /\ k > 3
            /\ log[k - 3].c = "start" /\ log[k - 3].id = log[k].id
            /\ log[k - 2].c = "write" /\ log[k - 2].id = log[k].id /\ log[k - 2].r = "true"
            /\ log[k - 1].c = "update" /\ log[k - 1].id = log[k].id
  /\ \A k \in DOMAIN log :
       log[k].c = "start"
         => /\ k < Len(log)
            /\ log[k + 1].c \in {"write", "write_failed"}
            /\ log[k + 1].id = log[k].id

\* C22: in every start request the unit definition is written first, the
\* supervisor update is issued second and the status is queried only after
\* both, in the reconcile pass, in add and in update, with and without
\* environment faults.
C22_StartOrdering ==
  /\ \A e \in AllEnvs : StartOrdered(sync_all_streams_to_gstreamer(World, e).w.log)
  /\ \A e \in AllEnvs1 :
       /\ \A d \in AddInputs, gen \in StreamIds :
            StartOrdered(add_stream(World, d, gen, e).w.log)
       /\ \A id \in StreamIds, u \in UpdateInputs :
            StartOrdered(update_stream(World, id, u, e).w.log)

\* C22 witness: an update that restarted its stream: the definition was
\* written, the update applied and the unit then seen RUNNING
C22_Witness ==
  /\ last.op = "update"
  /\ last.exc = "none"
  /\ last.id \in DOMAIN streams
  /\ last.id \in DOMAIN confDir
  /\ confDir[last.id].autostart = "true"
  /\ sup[last.id] = "RUNNING"

SameWorld(a, b) == a.conf = b.conf /\ a.streams = b.streams /\ a.sup = b.sup

\* C24: stop is idempotent.  stop_stream of any id (in the map or not, its
\* unit running, stopped or unknown to the supervisor) returns, and a second
\* stop_stream leaves what the first left; the same for two stops of one
\* stream process; with the supervisor and the file commands working or failing.
C24_StopIdempotent ==
  \A e \in {AllFine, SupDown, FsDown} :
    /\ \A id \in StreamIds :
         LET once == stop_stream(World, id, e)
         IN  /\ SameWorld(stop_stream(once, id, e), once)
             /\ id \notin DOMAIN once.streams
             /\ id \notin DOMAIN streams => SameWorld(once, World)
    /\ \A id \in DOMAIN streams :
         LET once == AES67Stream_stop(World, streams[id], e)
         IN  SameWorld(AES67Stream_stop(once, streams[id], e), once)

\* C24 witness: a stream process whose unit is already stopped and removed
\* (the cleanup of its failed start), still in the manager's map
C24_Witness ==
  /\ last.op = "update"
  /\ last.exc = "RuntimeError"
  /\ last.id \in DOMAIN streams
  /\ last.id \in DOMAIN confDir
  /\ sup[last.id] = "ABSENT"

\* enabled configurations handed to _sync_stream_to_gstreamer
EnabledConfigs ==
  { [id |-> i, kind |-> "sender", port |-> p] : i \in StreamIds, p \in {"5004", "5006"} }
  \cup { [id |-> i, kind |-> "receiver", port |-> "5006", enabled |-> TRUE] : i \in StreamIds }

\* C25: syncOne of an enabled configuration is a full recreate.  If the map
\* holds a stream process for the id, its stop (stop, remove, definition
\* rewritten with autostart=false) is complete before the start begins, and no
\* stop precedes the start otherwise; after a successful syncOne the map's
\* entry for the id is the process built from the new configuration, the
\* definition is the new configuration with autostart on, and the other
\* entries of the map are as they were.
C25_SyncEnabledRecreates ==
  \A d \in EnabledConfigs, e \in Envs1 :
    LET r == sync_stream_to_gstreamer(World, d, e)
        log == r.w.log
        cfg == dict_to_stream_config(d).cfg
    IN  /\ IF d.id \in DOMAIN streams
           THEN /\ Len(log) > 3
                /\ log[1].c = "stop" /\ log[1].id = d.id
                /\ log[2].c = "remove" /\ log[2].id = d.id
                /\ log[3].c = "write" /\ log[3].id = d.id /\ log[3].r = "false"
                /\ log[4].c = "start" /\ log[4].id = d.id
           ELSE log # <<>> /\ log[1].c = "start" /\ log[1].id = d.id
        /\ ~Raised(r.exc)
             => /\ d.id \in DOMAIN r.w.streams
                /\ r.w.streams[d.id] = cfg
                /\ d.id \in DOMAIN r.w.conf
                /\ r.w.conf[d.id] = UnitFile(cfg, TRUE)
                /\ \A j \in DOMAIN r.w.streams \ {d.id} :
                     j \in DOMAIN streams /\ r.w.streams[j] = streams[j]

\* C25 witness: an update gave a stream of the map a new port and restarted
\* it: map and definition hold the new configuration, autostart is on
C25_Witness ==
  /\ last.op = "update"
  /\ last.exc = "none"
  /\ last.id \in DOMAIN streams
  /\ streams[last.id].port = AltPort
  /\ last.id \in DOMAIN confDir
  /\ confDir[last.id].port = py_str(AltPort)
  /\ confDir[last.id].autostart = "true"

\* disabled configurations handed to _sync_stream_to_gstreamer
DisabledConfigs ==
  { [id |-> i, kind |-> k, port |-> "5006", enabled |-> FALSE] :
      i \in StreamIds, k \in {"sender", "receiver", "bogus"} }

\* C26: when syncOne of a disabled configuration returns without error, the
\* map holds no stream process for the id and the unit definition of the id
\* exists with the given configuration and autostart off.
C26_SyncDisabledLeavesDefinition ==
  \A d \in DisabledConfigs :
    LET r == sync_stream_to_gstreamer(World, d, AllFine)
    IN  ~Raised(r.exc)
          => /\ d.id \notin DOMAIN r.w.streams
             /\ d.id \in DOMAIN r.w.conf
             /\ r.w.conf[d.id] = UnitFile(dict_to_stream_config(d).cfg, FALSE)

\* the start attempt of stream id made by the handler that ran last failed
StartFailed(id) ==
  /\ id \in DOMAIN confDir
  /\ \/ last.op \in {"add", "update"} /\ last.exc = "RuntimeError" /\ last.id = id
     \/ last.op \in {"startup", "replace"} /\ id \in last.failed

\* environments in which the unit of stream id runs once started
RunsNow(id) == {e \in Envs : e.out[id].state = "RUNNING"}

\* C27: a stream whose start attempt failed can be restarted: a later update
\* with enabled=true (and a later syncOne of its registry entry with
\* enabled=true) makes a full new start attempt (definition written with
\* autostart on, update, status query), and the attempt succeeds when the unit
\* then runs.
C27_FailedCanRestart ==
  \A id \in StreamIds :
    StartFailed(id) =>
      \A e \in RunsNow(id) :
        LET r == update_stream(World, id, [enabled |-> TRUE], e)
            s == sync_stream_to_gstreamer(
                   World, Put(get_stream_by_id(World, id).d, "enabled", TRUE), e)
        IN  /\ ~Raised(r.exc)
            /\ HasEntry(r.w.log, "start", id)
            /\ HasEntry(r.w.log, "started", id)
            /\ r.w.sup[id] = "RUNNING"
            /\ id \in DOMAIN r.w.streams
            /\ r.w.conf[id].autostart = "true"
            /\ ~Raised(s.exc)
            /\ SameWorld(s.w, r.w)

\* C27 witness: a stream that failed to start in the startup pass was
\* restarted by an update and runs
C27_Witness ==
  /\ last.op = "update"
  /\ last.exc = "none"
  /\ last.id \in startup_failed_streams
  /\ last.id \in DOMAIN streams
  /\ sup[last.id] = "RUNNING"

\* C28: with the supervisor unreachable (every supervisorctl command fails)
\* a reconcile pass returns and its failure list holds every stream of the
\* registry, enabled or disabled.
C28_SupervisorDownAllFail ==
  FailedIds(sync_all_streams_to_gstreamer(World, SupDown).failed) = RegistryIds(World)

\* the error add_stream raises for a start that failed with diagnostic m
Wrapped(m) == "Failed to start stream: " \o m

\* C29: error classification is prioritized.  When a start has failed and the
\* tail of the unit's stderr log matches known signatures, the diagnostic
\* raised is that of the match of highest priority: device in use, then
\* device cannot be opened, then device does not exist, then format not
\* negotiated.
C29_ClassificationPrioritized ==
  diag # NoDiag =>
    LET t == diag.tail
    IN  /\ "busy" \in t
          => diag.msg = Wrapped("Audio device is currently in use by another application")
        /\ "busy" \notin t /\ "open" \in t
          => diag.msg = Wrapped("Could not open audio device")
        /\ {"busy", "open"} \cap t = {} /\ {"nodev", "nofile"} \cap t # {}
          => diag.msg = Wrapped("Audio device not found")
        /\ {"busy", "open", "nodev", "nofile"} \cap t = {} /\ "negotiate" \in t
          => diag.msg = Wrapped("Audio format negotiation failed on device")

\* C29 witness: a start failed with a stderr tail that matches the lowest
\* and the highest signature, and the in-use diagnostic was raised
C29_Witness ==
  /\ {"busy", "negotiate", "open"} \subseteq diag.tail
  /\ diag.msg = Wrapped("Audio device is currently in use by another application")
  /\ last.exc = "RuntimeError"

\* the signatures _get_process_error has a diagnostic for
Known == {"busy", "open", "nodev", "nofile", "negotiate"}

\* C30: when a start has failed and the tail of the stderr log matches no
\* known signature, the error raised is the raw tail (bounded in length) if
\* the tail is not empty, and the generic failed-to-start message naming the
\* state last seen only if the tail is empty or missing.
C30_RawTailFallback ==
  diag # NoDiag /\ diag.tail \cap Known = {} =>
    IF diag.tail # {}
    THEN diag.msg = Wrapped("raw tail")
    ELSE diag.msg = Wrapped("Stream failed to start: " \o diag.state)

\* the device string that went into pipeline_str
DeviceOf(b) == IF b.config.kind = "sender" THEN b.pipeline_str[2] ELSE b.pipeline_str[6]

\* C31: device-string normalization has three branches: 'default' is
\* returned unchanged, any other name that contains a colon is returned
\* unchanged, every other name comes back as 'hw:' followed by the name.
C31_DeviceStringThreeBranches ==
  built.made /\ built.ok =>
    LET s == built.config.device
        out == DeviceOf(built)
    IN  /\ s = <<"default">> => out = s
        /\ s # <<"default">> /\ (\E k \in DOMAIN s : s[k] = ":") => out = s
        /\ s # <<"default">> /\ (\A k \in DOMAIN s : s[k] # ":")
             => /\ Len(out) = Len(s) + 2
                /\ out[1] = "hw" /\ out[2] = ":"
                /\ \A k \in DOMAIN s : out[k + 2] = s[k]

\* C31 witness: a stream process was built for a bare card identifier and its
\* description names the device hw:card
C31_Witness ==
  /\ built.made /\ built.ok
  /\ built.config.device = <<"card">>
  /\ DeviceOf(built) = <<"hw", ":", "card">>

\* configurations of a kind that is neither sender nor receiver
BogusConfigs ==
  { [id |-> i, kind |-> "bogus", port |-> "5004", enabled |-> en] :
      i \in StreamIds, en \in BOOLEAN }

\* C32: a kind other than sender or receiver is never coerced.  The
\* construction of a stream process for such a configuration fails before
\* any unit definition is written and before any supervisor command is
\* issued (the log of syncOne is empty, the world is as it was), an enabled
\* one raises, and add and update with such a configuration end with no
\* stream process in the map and no running unit for the id.
C32_UnknownKindFailsFast ==
  \A e \in Envs1 :
    /\ \A d \in BogusConfigs :
         LET r == sync_stream_to_gstreamer(World, d, e)
         IN  /\ r.w.log = <<>>
             /\ SameWorld(r.w, World)
             /\ d.enabled => Raised(r.exc)
    /\ app = "up" =>
         /\ \A d \in BogusConfigs, gen \in StreamIds :
              LET r == add_stream(World, d, gen, e)
              IN  d.id \notin DOMAIN r.w.streams /\ r.w.sup[d.id] # "RUNNING"
         /\ \A id \in StreamIds :
              LET r == update_stream(World, id, [kind |-> "bogus"], e)
              IN  get_stream_by_id(World, id).ok
                    => id \notin DOMAIN r.w.streams /\ r.w.sup[id] # "RUNNING"

\* two configs of the same kind that agree on the transport fields
SameTransport(a, b) ==
  /\ a.kind = b.kind
  /\ a.ip = b.ip /\ a.port = b.port /\ a.device = b.device /\ a.iface = b.iface
  /\ a.channels = b.channels /\ a.format = b.format
  /\ a.buffer_time = b.buffer_time /\ a.latency_time = b.latency_time
  /\ a.sync = b.sync

\* C33: the pipeline description is a function of the kind and the transport
\* fields only: every config that agrees with the one a stream process was
\* built from on kind, address, port, device, interface, channels, format,
\* buffer time, latency time and sync yields the same description, whatever
\* its stream id and loopback flag.
C33_PipelineOfTransportOnly ==
  built.made /\ built.ok =>
    \A c \in StreamConfigs :
      SameTransport(c, built.config)
        => build_pipeline_string(c) = [ok |-> TRUE, str |-> built.pipeline_str]

\* C33 witness: a stream process built from a config with the loopback flag
\* set and the last stream id
C33_Witness ==
  /\ built.made /\ built.ok
  /\ built.config.loopback
  /\ built.config.stream_id = LastId
  /\ built.config.kind = "receiver"

\* the entries of a registry list whose id is not stream_id
OthersOf(ss, stream_id) ==
  SelectSeq(ss, LAMBDA s : py_str(Get(s, "id", NoId)) # py_str(stream_id))

\* C34: update(id, ...) and delete(id) affect only the registry entry whose
\* id equals the given id: after delete every entry with another id is still
\* present, unchanged and in the same order, and after update every position
\* holding another id holds the same entry, also when the given id string
\* coincides with the list position of another entry.
C34_OnlyTheNamedEntry ==
  app = "up" =>
    \A stream_id \in PathIds, gen \in StreamIds, u \in StreamUpdates :
      LET ss == read_provider_config(doc)
          rd == routes_delete_stream(doc, stream_id, gen)
          ru == read_provider_config(routes_update_stream(doc, stream_id, u, gen).doc)
      IN  /\ OthersOf(read_provider_config(rd.doc), stream_id) = OthersOf(ss, stream_id)
          /\ Len(ru) = Len(ss)
          /\ \A k \in DOMAIN ss :
               py_str(Get(ss[k], "id", NoId)) # py_str(stream_id) => ru[k] = ss[k]

\* C35: the persisted desired state of a stream is changed only by add,
\* update, delete and replaceAll.  An add of an enabled configuration whose
\* start attempt fails leaves the stream enabled in the registry, and a
\* reconcile pass leaves every stream in the registry with the enabled flag
\* it had, whatever the units do.
C35_DesiredStateOwnedByRegistry ==
  /\ \A d \in EnabledConfigs, e \in Envs1 :
       LET r == add_stream(World, d, 1, e)
       IN  (Raised(r.exc) /\ \E k \in DOMAIN r.w.log : r.w.log[k].c = "start")
             => /\ d.id \in DOMAIN r.w.conf
                /\ r.w.conf[d.id].autostart = bool_str(TRUE)
  /\ \A e \in Envs1 :
       LET r == sync_all_streams_to_gstreamer(World, e)
       IN  \A id \in DOMAIN confDir :
             /\ id \in DOMAIN r.w.conf
             /\ r.w.conf[id].autostart = confDir[id].autostart

\* the ids the registry holds as enabled
EnabledIds(conf) == {id \in DOMAIN conf : conf[id].autostart = bool_str(TRUE)}

\* C36: restart preserves desired state.  From a running application,
\* shutdown (shutdown_stream_manager) followed by startup
\* (initialize_streams) with no API mutation in between and no fault: every
\* stream that was enabled in the registry before the shutdown is enabled
\* in the registry afterwards and has been started again by the startup
\* reconciliation.
C36_RestartPreservesDesiredState ==
  app = "up" =>
    LET down == [stop_all(World, 1, AllFine) EXCEPT !.streams = <<>>]
        r == sync_all_streams_to_gstreamer([down EXCEPT !.log = <<>>], AllFine)
    IN  \A id \in EnabledIds(confDir) :
          /\ id \in EnabledIds(r.w.conf)
          /\ id \in DOMAIN r.w.streams
          /\ \E k \in DOMAIN r.w.log : r.w.log[k].c = "start" /\ r.w.log[k].id = id

\* C37: map/registry agreement.  Once the startup reconciliation has run
\* and no operation is in progress, after any sequence of sequential add,
\* update, delete and replaceAll calls every registry stream whose persisted
\* enabled flag is true has a stream process in the manager's map, and every
\* id of the map has a unit definition in the registry.
C37_MapRegistryAgreement ==
  app = "up" =>
    /\ \A id \in EnabledIds(confDir) : id \in DOMAIN streams
    /\ \A id \in DOMAIN streams : id \in DOMAIN confDir

====
